---- MODULE Spec2Model ----
(***************************************************************************)
(* The chat server of cheat-chat (src/unnamed/part_000): one Node.js       *)
(* process, its Socket.IO event handlers, the in-memory presence map and   *)
(* the Redis data client.                                                  *)
(*                                                                         *)
(* Execution model.  Node runs one handler or one promise continuation at  *)
(* a time.  Every Redis command of dataClient travels over one connection: *)
(* commands are executed in the order they were issued and their replies   *)
(* come back in that order.  An async function issues its next command     *)
(* only in the continuation of the previous one, so each running async     *)
(* function has exactly one command in flight.  redisQueue is that         *)
(* pipeline; a Reply action takes its head, applies the command to the     *)
(* store and runs the continuation (which may emit, and may issue the      *)
(* next command at the tail): the reply of a command and the continuation  *)
(* it resumes are one step.  The store answers every command in Spec,      *)
(* SpecLoaded and SpecChat; the catch branches are not taken there.        *)
(*                                                                         *)
(* Socket.IO rooms: only the chat rooms are modelled (the private room     *)
(* every socket has under its own id is never a room name here).           *)
(***************************************************************************)
EXTENDS Integers, Sequences, FiniteSets, TLC

\* ------------------------------------------------------------- bounds
Conns == {"s1", "s2"}           \* socket ids
Rooms == {"r1", "r2"}           \* room names clients ask for
Names == {"alice", "bob"}       \* usernames clients ask for
Bodies == {"hi"}                \* message bodies
MaxJoins == 3                   \* Spec: join-room events handled in one run
MaxSends == 1                   \* Spec: send-message events that find a participant
MaxTicks == 0                   \* Spec: times Date.now() moves on to the next ms
MaxQueue == 3                   \* Spec: Redis commands in flight at one time
LoadedJoins == 1                \* SpecLoaded: join-room events handled in one run
LoadedSends == 2                \* SpecLoaded: send-message events that find a participant
LoadedTicks == 1                \* SpecLoaded: times Date.now() moves on to the next ms
LoadedQueue == 3                \* SpecLoaded: Redis commands in flight at one time
ChatJoins == 1                  \* SpecChat: join-room events handled in one run
ChatSends == 2                  \* SpecChat: send-message events that find a participant
ChatTicks == 2                  \* SpecChat: times Date.now() moves on to the next ms
ChatQueue == 4                  \* SpecChat: Redis commands in flight at one time
FaultyJoins == 2                \* SpecFaulty: join-room events handled in one run
FaultySends == 1                \* SpecFaulty: send-message events that find a participant
FaultyTicks == 0                \* SpecFaulty: times Date.now() moves on to the next ms
FaultyQueue == 3                \* SpecFaulty: Redis commands in flight at one time
DayJoins == 1                   \* SpecDay: join-room events handled in one run
DaySends == 1                   \* SpecDay: send-message events that find a participant
DayTicks == 0                   \* SpecDay: times Date.now() moves on to the next ms
DayQueue == 3                   \* SpecDay: Redis commands in flight at one time
LeaveJoins == 2                 \* SpecLeave: join-room events handled in one run
LeaveSends == 1                 \* SpecLeave: send-message events that find a participant
LeaveTicks == 0                 \* SpecLeave: times Date.now() moves on to the next ms
LeaveQueue == 3                 \* SpecLeave: Redis commands in flight at one time
FormSubmits == 2                \* SpecForm: submits of the join form in one run
InputEvents == 4                \* SpecInput: change and submit events of the message input in one run
ClusterJoins == 2               \* SpecCluster: join-room events handled in one run
ClusterSends == 1               \* SpecCluster: send-message events that find a participant
ClusterTicks == 0               \* SpecCluster: times Date.now() moves on to the next ms
ClusterQueue == 3               \* SpecCluster: Redis commands in flight at one time
SwitchJoins == 2                \* SpecSwitch: join-room events handled in one run
SwitchSends == 1                \* SpecSwitch: send-message events that find a participant
SwitchTicks == 0                \* SpecSwitch: times Date.now() moves on to the next ms
SwitchQueue == 3                \* SpecSwitch: Redis commands in flight at one time
SwitchPast == 3                 \* SpecSwitch: messages in the log of r1 when the run starts
ViewJoins == 1                  \* SpecView: join-room events handled in one run
ViewSends == 1                  \* SpecView: send-message events that find a participant
ViewTicks == 0                  \* SpecView: times Date.now() moves on to the next ms
ViewQueue == 3                  \* SpecView: Redis commands in flight at one time
ViewPast == 2                   \* SpecView: messages in the log of r1 when the run starts

\* -------------------------------------------------- program constants
HistoryCap == 100               \* zRemRangeByRank(key, 0, -101)
HistoryLimit == 50              \* getRoomMessages(room, 50)
UserTtl == 86400                \* expire(`user:${id}`, 86400)
MinLength == 2                  \* username.trim().length < 2, room.trim().length < 2
UsernameMax == 20               \* username.trim().length > 20
RoomMax == 30                   \* room.trim().length > 30

VARIABLES
    now,            \* Date.now() of the process, in ms
    sockets,        \* [Conns -> {"none", "open", "closed"}]: the sockets io.on('connection')
                    \* was given ("none": the client has not connected yet)
    activeUsers,    \* the Map<string, User>; NoUser where the key is absent
    socketRooms,    \* socket.rooms of every socket (chat rooms only)
    userHash,       \* Redis hashes user:<id>, as a function on the ids whose key exists
    userTtl,        \* Redis TTL of user:<id> (0: none)
    roomUserSet,    \* Redis sets room:<room>:users
    msgHash,        \* Redis hashes message:<id>, as a function on the ids whose key exists
    roomMsgs,       \* Redis sorted sets room:<room>:messages, ascending (score, member)
    redisQueue,     \* commands of dataClient in flight, oldest first
    emitted,        \* what the last step emitted, in order
    last,           \* the event or Redis reply the last step handled: [op, socket]
    budget,         \* what the run may still do: [joins, sends, ticks] and the pipeline's depth [queue]
    sent,           \* the messages send-message has made, in order
    broadcasts,     \* new-message emissions made
    client          \* the React state of one browser client (App and JoinForm)

vars == <<now, sockets, activeUsers, socketRooms, userHash, userTtl, roomUserSet,
          msgHash, roomMsgs, redisQueue, emitted, last, budget, sent, broadcasts,
          client>>

store == <<userHash, userTtl, roomUserSet, msgHash, roomMsgs>>

\* ------------------------------------------------------------- values
NoUser == [id |-> "", username |-> "", room |-> "", joinedAt |-> 0]

User(id, username, room, joinedAt) ==
    [id |-> id, username |-> username, room |-> room, joinedAt |-> joinedAt]

\* id is Date.now().toString() and timestamp is new Date().toISOString():
\* both are kept as the ms they were made from (the two strings are fixed
\* in width over a run, so they are equal and ordered as their ms are)
ChatMessage(id, username, message, timestamp, room) ==
    [id |-> id, username |-> username, message |-> message,
     timestamp |-> timestamp, room |-> room]

Emit(ev, to, data) == [ev |-> ev, to |-> to, data |-> data]

Handled(op, socket) == [op |-> op, socket |-> socket]

\* The client before its socket has connected and before anything is typed:
\* useState(false), useState(''), useState({}) of App and JoinForm; `emits`
\* are the events the client has emitted on its socket, `submits` counts the
\* submits of the form and `alerted` tells that the last one ended in alert()
NoClient == [isConnected |-> FALSE, username |-> <<>>, room |-> <<>>, errors |-> {},
             alerted |-> FALSE, emits |-> <<>>, submits |-> 0]

\* The run starts after the ms in which a preloaded log was written.
ClockStart == HistoryCap + 1

\* --------------------------------------------------------- Socket.IO
\* The sockets a broadcast to `room` reaches.
InRoom(sr, room) == {c \in Conns : room \in sr[c]}

\* io.emit(ev, data): IoToEmit without the room
IoEmit(sr, room, ev, data) == Emit(ev, {c \in Conns : sockets[c] = "open"}, data)

\* io.to(room).emit(ev, data)
IoToEmit(sr, room, ev, data) == Emit(ev, InRoom(sr, room), data)

\* SocketToEmit without the exclusion of the sender
SocketToEmitWithSelf(sr, c, room, ev, data) == Emit(ev, InRoom(sr, room), data)

\* socket.to(room).emit(ev, data): everyone in the room but the socket itself
SocketToEmit(sr, c, room, ev, data) == Emit(ev, InRoom(sr, room) \ {c}, data)

\* SocketEmit to every open socket
SocketEmitAll(st, c, ev, data) == Emit(ev, {x \in Conns : st[x] = "open"}, data)

\* socket.emit(ev, data): nothing reaches a socket that has closed
SocketEmit(st, c, ev, data) == Emit(ev, IF st[c] = "open" THEN {c} ELSE {}, data)

\* RoomUsersOf without its filter
RoomUsersUnfiltered(au, room) ==
    {[id |-> au[c].id, username |-> au[c].username] : c \in {x \in Conns : au[x] # NoUser}}

\* Array.from(activeUsers.values()).filter(u => u.room === room).map(...)
\* (the Map holds one value per socket id; the order of the array is the
\* Map's insertion order, which nothing below reads)
RoomUsersOf(au, room) ==
    {[id |-> au[c].id, username |-> au[c].username] :
        c \in {x \in Conns : au[x] # NoUser /\ au[x].room = room}}

\* ------------------------------------------------------------- Redis
\* A sorted set is the sequence of its [score, value] entries in ascending
\* order of score, entries of equal score in the order of their members
\* (message ids of one run are decimal strings of equal length, which
\* compare as the numbers do).
ZLess(a, b) == a.score < b.score \/ (a.score = b.score /\ a.value < b.value)

\* ZAdd into another key
ZAddElsewhere(z, score, value) == z

\* ZADD key score member: a member already in the set is moved to the new score
ZAdd(z, score, value) ==
    LET e == [score |-> score, value |-> value]
        others == SelectSeq(z, LAMBDA x : x.value # value)
    IN  SelectSeq(others, LAMBDA x : ZLess(x, e)) \o <<e>> \o
        SelectSeq(others, LAMBDA x : ~ZLess(x, e))

\* ZREMRANGEBYRANK key start stop, with start >= 0 and stop < 0 (counted
\* from the end: -1 is the last entry)
ZRemRangeByRank(z, start, stop) ==
    LET n == Len(z)
        stopRank == n + stop
    IN  IF stopRank < start
        THEN z
        ELSE SubSeq(z, 1, start) \o SubSeq(z, stopRank + 2, n)

\* ZRANGE key -limit -1: the members of the last `limit` entries, ascending
ZRange(z, limit) ==
    LET n == Len(z)
        from == IF n > limit THEN n - limit + 1 ELSE 1
    IN  [i \in 1..(n - from + 1) |-> z[from + i - 1].value]

\* HSET key fields
HSet(h, key, fields) == (key :> fields) @@ h

\* Del that deletes nothing
DelNothing(h, key) == h

\* DEL key
Del(h, key) == [k \in DOMAIN h \ {key} |-> h[k]]

\* ------------------------------------------- commands in flight
SaveUserCmd(pc, user) == [fn |-> "saveUserToRedis", pc |-> pc, user |-> user]

RemoveUserCmd(pc, userId, room) ==
    [fn |-> "removeUserFromRedis", pc |-> pc, userId |-> userId, room |-> room]

\* `score` is the Date.now() read when the zAdd call is made; `awaited` tells
\* the first call of send-message (line 230) from the second (line 237).
SaveMsgCmd(pc, socket, message, score, awaited) ==
    [fn |-> "saveChatMessage", pc |-> pc, socket |-> socket, message |-> message,
     score |-> score, awaited |-> awaited]

GetMsgsCmd(pc, socket, room, limit, ids, messages) ==
    [fn |-> "getRoomMessages", pc |-> pc, socket |-> socket, room |-> room,
     limit |-> limit, ids |-> ids, messages |-> messages]

\* --------------------------------------------------------------- Init
EmptyStore ==
    /\ userHash = <<>>
    /\ userTtl = [c \in Conns |-> 0]
    /\ roomUserSet = [r \in Rooms |-> {}]
    /\ msgHash = <<>>
    /\ roomMsgs = [r \in Rooms |-> <<>>]

ServerUp ==
    /\ now = ClockStart
    /\ sockets = [c \in Conns |-> "open"]
    /\ activeUsers = [c \in Conns |-> NoUser]
    /\ socketRooms = [c \in Conns |-> {}]
    /\ redisQueue = <<>>
    /\ emitted = <<>>
    /\ last = Handled("listen", "")
    /\ sent = <<>>
    /\ broadcasts = 0
    /\ client = NoClient

Init ==
    /\ ServerUp
    /\ EmptyStore
    /\ budget = [joins |-> MaxJoins, sends |-> MaxSends, ticks |-> MaxTicks, queue |-> MaxQueue]

\* ------------------------------------------------------------ events
\* Date.now(): the clock is read only where the code reads it; a read
\* returns the ms of the read before or a later one
DateNow == IF budget.ticks > 0 THEN {now, now + 1} ELSE {now}

\* The budget left when Date.now() returned t
Spend(b, t) == [b EXCEPT !.ticks = IF t > now THEN @ - 1 ELSE @]

\* The pipeline has room for n more commands
Room(n) == Len(redisQueue) + n <= budget.queue

\* LeavePrevious without the socket.leave
LeaveNothing(sr, c, prev) == sr

\* socket.leave(previousUser.room), when there is a previous user
LeavePrevious(sr, c, prev) ==
    IF prev # NoUser THEN [sr EXCEPT ![c] = @ \ {prev.room}] ELSE sr

\* socket.join(room)
SocketJoin(sr, c, room) == [sr EXCEPT ![c] = @ \cup {room}]

UserLeft(user) ==
    [username |-> user.username, room |-> user.room]

\* socket.on('join-room'), with Date.now() = t when joinedAt is taken
JoinRoomAt(c, username, room, t) ==
    LET previousUser == activeUsers[c]
        left == LeavePrevious(socketRooms, c, previousUser)
        joined == SocketJoin(left, c, room)
        user == User(c, username, room, t)
        users == [activeUsers EXCEPT ![c] = user]
    IN  /\ sockets[c] = "open"
        /\ budget.joins > 0
        /\ Room(2)
        /\ budget' = [Spend(budget, t) EXCEPT !.joins = @ - 1]
        /\ now' = t
        /\ socketRooms' = joined
        /\ activeUsers' = users
        /\ redisQueue' = redisQueue \o
               << SaveUserCmd("hSet", user),
                  GetMsgsCmd("zRange", c, room, HistoryLimit, <<>>, <<>>) >>
        /\ emitted' =
               (IF previousUser # NoUser
                THEN << SocketToEmit(left, c, previousUser.room, "user-left",
                                     UserLeft(previousUser)) >>
                ELSE <<>>) \o
               << SocketToEmit(joined, c, room, "user-joined",
                               [username |-> username, room |-> room]),
                  SocketEmit(sockets, c, "room-joined",
                             [username |-> username, room |-> room]),
                  IoToEmit(joined, room, "room-users", RoomUsersOf(users, room)) >>
        /\ last' = Handled("join-room", c)
        /\ UNCHANGED <<client, sockets, store, sent, broadcasts>>

JoinRoom(c, username, room) == \E t \in DateNow : JoinRoomAt(c, username, room, t)

\* HasUser without the test
HasAnyUser(user) == TRUE

\* `if (user)` of send-message
HasUser(user) == user # NoUser

\* socket.on('send-message'), up to its await, with Date.now() = t when the
\* message is made (the id and the timestamp are read in the same ms)
SendMessageAt(c, message, t) ==
    LET user == activeUsers[c]
        messageData == ChatMessage(t, user.username, message, t, user.room)
    IN  /\ sockets[c] = "open"
        /\ IF HasUser(user)
           THEN /\ budget.sends > 0
                /\ Room(1)
                /\ budget' = [Spend(budget, t) EXCEPT !.sends = @ - 1]
                /\ now' = t
                /\ redisQueue' = Append(redisQueue,
                                        SaveMsgCmd("hSet", c, messageData, 0, TRUE))
                /\ sent' = Append(sent, messageData)
           ELSE /\ t = now
                /\ UNCHANGED <<now, budget, redisQueue, sent>>
        /\ emitted' = <<>>
        /\ last' = Handled("send-message", c)
        /\ UNCHANGED <<client, sockets, activeUsers, socketRooms, store, broadcasts>>

SendMessage(c, message) == \E t \in DateNow : SendMessageAt(c, message, t)

\* socket.on('typing-start') and socket.on('typing-stop')
Typing(c, isTyping) ==
    LET user == activeUsers[c]
    IN  /\ sockets[c] = "open"
        /\ emitted' =
               IF user # NoUser
               THEN << SocketToEmit(socketRooms, c, user.room, "user-typing",
                                    [username |-> user.username, isTyping |-> isTyping]) >>
               ELSE <<>>
        /\ last' = Handled(IF isTyping THEN "typing-start" ELSE "typing-stop", c)
        /\ UNCHANGED <<client, now, sockets, activeUsers, socketRooms, store, redisQueue,
                       budget, sent, broadcasts>>

\* MapDelete that empties the map
MapClear(au, c) == [x \in Conns |-> NoUser]

\* MapDelete without the delete
MapKeep(au, c) == au

\* activeUsers.delete(socket.id)
MapDelete(au, c) == [au EXCEPT ![c] = NoUser]

\* socket.on('disconnect'): Socket.IO has taken the socket out of all its
\* rooms when the listener runs
Disconnect(c) ==
    LET user == activeUsers[c]
        left == [socketRooms EXCEPT ![c] = {}]
        users == MapDelete(activeUsers, c)
    IN  /\ sockets[c] = "open"
        /\ sockets' = [sockets EXCEPT ![c] = "closed"]
        /\ socketRooms' = left
        /\ IF user # NoUser
           THEN /\ Room(1)
                /\ activeUsers' = users
                /\ redisQueue' = Append(redisQueue, RemoveUserCmd("del", c, user.room))
                /\ emitted' =
                       << SocketToEmit(left, c, user.room, "user-left", UserLeft(user)),
                          IoToEmit(left, user.room, "room-users",
                                   RoomUsersOf(users, user.room)) >>
           ELSE /\ emitted' = <<>>
                /\ UNCHANGED <<activeUsers, redisQueue>>
        /\ last' = Handled("disconnect", c)
        /\ UNCHANGED <<client, now, store, budget, sent, broadcasts>>

\* ----------------------------------------------------- Redis replies
\* saveUserToRedis: hSet, sAdd, expire
ReplySaveUser ==
    /\ redisQueue # <<>>
    /\ Head(redisQueue).fn = "saveUserToRedis"
    /\ LET cmd == Head(redisQueue)
           user == cmd.user
       IN  /\ CASE cmd.pc = "hSet" ->
                     /\ userHash' = HSet(userHash, user.id, user)
                     /\ redisQueue' = Append(Tail(redisQueue), SaveUserCmd("sAdd", user))
                     /\ UNCHANGED <<userTtl, roomUserSet>>
                [] cmd.pc = "sAdd" ->
                     /\ roomUserSet' = [roomUserSet EXCEPT ![user.room] = @ \cup {user.id}]
                     /\ redisQueue' = Append(Tail(redisQueue), SaveUserCmd("expire", user))
                     /\ UNCHANGED <<userHash, userTtl>>
                [] cmd.pc = "expire" ->
                     /\ userTtl' = IF user.id \in DOMAIN userHash
                                   THEN [userTtl EXCEPT ![user.id] = UserTtl]
                                   ELSE userTtl
                     /\ redisQueue' = Tail(redisQueue)
                     /\ UNCHANGED <<userHash, roomUserSet>>
           /\ last' = Handled(cmd.fn, user.id)
    /\ emitted' = <<>>
    /\ UNCHANGED <<client, now, sockets, activeUsers, socketRooms, msgHash, roomMsgs, budget,
                   sent, broadcasts>>

\* removeUserFromRedis: del, sRem
ReplyRemoveUser ==
    /\ redisQueue # <<>>
    /\ Head(redisQueue).fn = "removeUserFromRedis"
    /\ LET cmd == Head(redisQueue)
       IN  /\ CASE cmd.pc = "del" ->
                     /\ userHash' = Del(userHash, cmd.userId)
                     /\ userTtl' = [userTtl EXCEPT ![cmd.userId] = 0]
                     /\ redisQueue' = Append(Tail(redisQueue),
                                             RemoveUserCmd("sRem", cmd.userId, cmd.room))
                     /\ UNCHANGED roomUserSet
                [] cmd.pc = "sRem" ->
                     /\ roomUserSet' = [roomUserSet EXCEPT ![cmd.room] = @ \ {cmd.userId}]
                     /\ redisQueue' = Tail(redisQueue)
                     /\ UNCHANGED <<userHash, userTtl>>
           /\ last' = Handled(cmd.fn, cmd.userId)
    /\ emitted' = <<>>
    /\ UNCHANGED <<client, now, sockets, activeUsers, socketRooms, msgHash, roomMsgs, budget,
                   sent, broadcasts>>

\* TrimStop one rank further from the end
TrimStopLate == -(HistoryCap + 2)

\* The stop rank of the trim: zRemRangeByRank(key, 0, -101)
TrimStop == -(HistoryCap + 1)

\* NewMessage to every socket but those of the room
NewMessageOutside(sr, message) ==
    Emit("new-message", {c \in Conns : sockets[c] = "open"} \ InRoom(sr, message.room),
         message)

\* io.to(user.room).emit('new-message', messageData)
NewMessage(sr, message) == IoToEmit(sr, message.room, "new-message", message)

\* saveChatMessage: hSet, zAdd, zRemRangeByRank; when the call is the one
\* send-message awaits, the handler goes on from its await: it broadcasts
\* and calls saveChatMessage a second time
ReplySaveChatMessage ==
    /\ redisQueue # <<>>
    /\ Head(redisQueue).fn = "saveChatMessage"
    /\ LET cmd == Head(redisQueue)
           message == cmd.message
       IN  /\ CASE cmd.pc = "hSet" ->
                     /\ msgHash' = HSet(msgHash, message.id, message)
                     /\ \E t \in DateNow :
                            /\ now' = t
                            /\ budget' = Spend(budget, t)
                            /\ redisQueue' = Append(Tail(redisQueue),
                                   SaveMsgCmd("zAdd", cmd.socket, message, t, cmd.awaited))
                     /\ emitted' = <<>>
                     /\ UNCHANGED <<roomMsgs, broadcasts>>
                [] cmd.pc = "zAdd" ->
                     /\ roomMsgs' = [roomMsgs EXCEPT
                            ![message.room] = ZAdd(@, cmd.score, message.id)]
                     /\ redisQueue' = Append(Tail(redisQueue),
                            SaveMsgCmd("zRem", cmd.socket, message, 0, cmd.awaited))
                     /\ emitted' = <<>>
                     /\ UNCHANGED <<now, budget, msgHash, broadcasts>>
                [] cmd.pc = "zRem" ->
                     /\ roomMsgs' = [roomMsgs EXCEPT
                            ![message.room] = ZRemRangeByRank(@, 0, TrimStop)]
                     /\ IF cmd.awaited
                        THEN /\ emitted' = << NewMessage(socketRooms, message) >>
                             /\ broadcasts' = broadcasts + 1
                             /\ redisQueue' = Append(Tail(redisQueue),
                                    SaveMsgCmd("hSet", cmd.socket, message, 0, FALSE))
                        ELSE /\ emitted' = <<>>
                             /\ redisQueue' = Tail(redisQueue)
                             /\ UNCHANGED broadcasts
                     /\ UNCHANGED <<now, budget, msgHash>>
           /\ last' = Handled(cmd.fn, cmd.socket)
    /\ UNCHANGED <<client, sockets, activeUsers, socketRooms, userHash, userTtl,
                   roomUserSet, sent>>

\* getRoomMessages: zRange, then one hGetAll per id; the caller of join-room
\* sends what it returns to the joining socket as chat-history
ReplyGetRoomMessages ==
    /\ redisQueue # <<>>
    /\ Head(redisQueue).fn = "getRoomMessages"
    /\ LET cmd == Head(redisQueue)
           history(messages) == << SocketEmit(sockets, cmd.socket, "chat-history", messages) >>
       IN  /\ CASE cmd.pc = "zRange" ->
                     LET messageIds == ZRange(roomMsgs[cmd.room], cmd.limit)
                     IN  IF Len(messageIds) = 0
                         THEN /\ emitted' = history(<<>>)
                              /\ redisQueue' = Tail(redisQueue)
                         ELSE /\ emitted' = <<>>
                              /\ redisQueue' = Append(Tail(redisQueue),
                                     GetMsgsCmd("hGetAll", cmd.socket, cmd.room, cmd.limit,
                                                messageIds, <<>>))
                [] cmd.pc = "hGetAll" ->
                     LET messageId == Head(cmd.ids)
                         messages == IF messageId \in DOMAIN msgHash
                                     THEN Append(cmd.messages, msgHash[messageId])
                                     ELSE cmd.messages
                     IN  IF Len(cmd.ids) = 1
                         THEN /\ emitted' = history(messages)
                              /\ redisQueue' = Tail(redisQueue)
                         ELSE /\ emitted' = <<>>
                              /\ redisQueue' = Append(Tail(redisQueue),
                                     GetMsgsCmd("hGetAll", cmd.socket, cmd.room, cmd.limit,
                                                Tail(cmd.ids), messages))
           /\ last' = Handled(cmd.fn, cmd.socket)
    /\ UNCHANGED <<client, now, sockets, activeUsers, socketRooms, store, budget, sent,
                   broadcasts>>

\* --------------------------------------------------------------- Next
Next ==
    \/ \E c \in Conns, username \in Names, room \in Rooms : JoinRoom(c, username, room)
    \/ \E c \in Conns, message \in Bodies : SendMessage(c, message)
    \/ \E c \in Conns, isTyping \in BOOLEAN : Typing(c, isTyping)
    \/ \E c \in Conns : Disconnect(c)
    \/ ReplySaveUser
    \/ ReplyRemoveUser
    \/ ReplySaveChatMessage
    \/ ReplyGetRoomMessages

Spec == Init /\ [][Next]_vars

\* ------------------------------------------------- a server with a past
\* The log of room r1 as n earlier sends of bob left it, one per ms, each
\* saved twice before the next was sent
LoadedRoom == "r1"

PastMessage(i) == ChatMessage(i, "bob", "hi", i, LoadedRoom)

\* s1 joined r1 as alice before the run and its record is persisted; the
\* other sockets have come and gone without joining; the log holds n messages
InitPast(n, b) ==
    /\ now = ClockStart
    /\ sockets = [c \in Conns |-> IF c = "s1" THEN "open" ELSE "closed"]
    /\ activeUsers = [c \in Conns |->
            IF c = "s1" THEN User("s1", "alice", LoadedRoom, ClockStart) ELSE NoUser]
    /\ socketRooms = [c \in Conns |-> IF c = "s1" THEN {LoadedRoom} ELSE {}]
    /\ userHash = ("s1" :> User("s1", "alice", LoadedRoom, ClockStart))
    /\ userTtl = [c \in Conns |-> IF c = "s1" THEN UserTtl ELSE 0]
    /\ roomUserSet = [r \in Rooms |-> IF r = LoadedRoom THEN {"s1"} ELSE {}]
    /\ msgHash = [i \in 1..n |-> PastMessage(i)]
    /\ roomMsgs = [r \in Rooms |->
           IF r = LoadedRoom
           THEN [i \in 1..n |-> [score |-> i, value |-> i]]
           ELSE <<>>]
    /\ redisQueue = <<>>
    /\ emitted = <<>>
    /\ last = Handled("listen", "")
    /\ sent = <<>>
    /\ broadcasts = 0
    /\ client = NoClient
    /\ budget = b

\* The log is full
InitLoaded ==
    InitPast(HistoryCap, [joins |-> LoadedJoins, sends |-> LoadedSends,
                          ticks |-> LoadedTicks, queue |-> LoadedQueue])

SpecLoaded == InitLoaded /\ [][Next]_vars

\* The log is empty
InitChat ==
    InitPast(0, [joins |-> ChatJoins, sends |-> ChatSends,
                 ticks |-> ChatTicks, queue |-> ChatQueue])

SpecChat == InitChat /\ [][Next]_vars

\* The log holds a few messages
InitSwitch ==
    InitPast(SwitchPast, [joins |-> SwitchJoins, sends |-> SwitchSends,
                          ticks |-> SwitchTicks, queue |-> SwitchQueue])

SpecSwitch == InitSwitch /\ [][Next]_vars

\* ------------------------------------------------ two server processes
\* Two processes run the program against one Redis, each with the Redis
\* adapter set up (line 344): a broadcast to a room reaches the sockets of
\* the room on both processes.  Every process has its own activeUsers map;
\* a socket is a key of the map of its process only, so the variable
\* activeUsers holds the two maps side by side.  Every process has its own
\* dataClient: Redis executes the commands of one connection in the order
\* of their issue, and those of two connections in any order.
ProcessOf(c) == IF c = "s1" THEN "p1" ELSE "p2"

\* LocalUsers with the entries of every process
SharedUsers(au, process) == au

\* The activeUsers map of `process`
LocalUsers(au, process) ==
    [c \in Conns |-> IF ProcessOf(c) = process THEN au[c] ELSE NoUser]

\* The process that issued a command
IssuerOf(cmd) ==
    ProcessOf(CASE cmd.fn = "saveUserToRedis" -> cmd.user.id
                [] cmd.fn = "removeUserFromRedis" -> cmd.userId
                [] OTHER -> cmd.socket)

\* socket.on('join-room') on the process of socket c
ClusterJoinRoomAt(c, username, room, t) ==
    LET previousUser == activeUsers[c]
        left == LeavePrevious(socketRooms, c, previousUser)
        joined == SocketJoin(left, c, room)
        user == User(c, username, room, t)
        users == [activeUsers EXCEPT ![c] = user]
    IN  /\ sockets[c] = "open"
        /\ budget.joins > 0
        /\ Room(2)
        /\ budget' = [Spend(budget, t) EXCEPT !.joins = @ - 1]
        /\ now' = t
        /\ socketRooms' = joined
        /\ activeUsers' = users
        /\ redisQueue' = redisQueue \o
               << SaveUserCmd("hSet", user),
                  GetMsgsCmd("zRange", c, room, HistoryLimit, <<>>, <<>>) >>
        /\ emitted' =
               (IF previousUser # NoUser
                THEN << SocketToEmit(left, c, previousUser.room, "user-left",
                                     UserLeft(previousUser)) >>
                ELSE <<>>) \o
               << SocketToEmit(joined, c, room, "user-joined",
                               [username |-> username, room |-> room]),
                  SocketEmit(sockets, c, "room-joined",
                             [username |-> username, room |-> room]),
                  IoToEmit(joined, room, "room-users",
                           RoomUsersOf(LocalUsers(users, ProcessOf(c)), room)) >>
        /\ last' = Handled("join-room", c)
        /\ UNCHANGED <<client, sockets, store, sent, broadcasts>>

ClusterJoinRoom(c, username, room) ==
    \E t \in DateNow : ClusterJoinRoomAt(c, username, room, t)

\* socket.on('disconnect') on the process of socket c
ClusterDisconnect(c) ==
    LET user == activeUsers[c]
        left == [socketRooms EXCEPT ![c] = {}]
        users == MapDelete(activeUsers, c)
    IN  /\ sockets[c] = "open"
        /\ sockets' = [sockets EXCEPT ![c] = "closed"]
        /\ socketRooms' = left
        /\ IF user # NoUser
           THEN /\ Room(1)
                /\ activeUsers' = users
                /\ redisQueue' = Append(redisQueue, RemoveUserCmd("del", c, user.room))
                /\ emitted' =
                       << SocketToEmit(left, c, user.room, "user-left", UserLeft(user)),
                          IoToEmit(left, user.room, "room-users",
                                   RoomUsersOf(LocalUsers(users, ProcessOf(c)), user.room)) >>
           ELSE /\ emitted' = <<>>
                /\ UNCHANGED <<activeUsers, redisQueue>>
        /\ last' = Handled("disconnect", c)
        /\ UNCHANGED <<client, now, store, budget, sent, broadcasts>>

\* A command reaches Redis before one that the other process issued earlier
Overtake(i) ==
    /\ i < Len(redisQueue)
    /\ IssuerOf(redisQueue[i]) # IssuerOf(redisQueue[i + 1])
    /\ redisQueue' = [redisQueue EXCEPT ![i] = redisQueue[i + 1],
                                        ![i + 1] = redisQueue[i]]
    /\ emitted' = <<>>
    /\ last' = Handled("overtake", "")
    /\ UNCHANGED <<client, now, sockets, activeUsers, socketRooms, store, budget, sent,
                   broadcasts>>

InitCluster ==
    /\ ServerUp
    /\ EmptyStore
    /\ budget = [joins |-> ClusterJoins, sends |-> ClusterSends,
                 ticks |-> ClusterTicks, queue |-> ClusterQueue]

NextCluster ==
    \/ \E c \in Conns, username \in Names, room \in Rooms : ClusterJoinRoom(c, username, room)
    \/ \E c \in Conns, message \in Bodies : SendMessage(c, message)
    \/ \E c \in Conns, isTyping \in BOOLEAN : Typing(c, isTyping)
    \/ \E c \in Conns : ClusterDisconnect(c)
    \/ ReplySaveUser
    \/ ReplyRemoveUser
    \/ ReplySaveChatMessage
    \/ ReplyGetRoomMessages
    \/ \E i \in 1..ClusterQueue : Overtake(i)

SpecCluster == InitCluster /\ [][NextCluster]_vars

\* ------------------------------------------- a store that may fail
\* Any command may be rejected (the store is down, or answers with an
\* error); the rejection is thrown at the await and caught by the catch of
\* the function that issued the command, which logs it and returns.

\* Caught with the rejected command issued again
Retried(queue) == Append(Tail(queue), Head(queue))

\* The pipeline after the function of its head command has returned from
\* its catch: the function issues nothing more
Caught(queue) == Tail(queue)

\* catch of saveUserToRedis (lines 70-72) and of removeUserFromRedis (80-82)
FailUserCommand ==
    /\ redisQueue # <<>>
    /\ Head(redisQueue).fn \in {"saveUserToRedis", "removeUserFromRedis"}
    /\ LET cmd == Head(redisQueue)
       IN  last' = Handled("console.error",
                           IF cmd.fn = "saveUserToRedis" THEN cmd.user.id ELSE cmd.userId)
    /\ redisQueue' = Caught(redisQueue)
    /\ emitted' = <<>>
    /\ UNCHANGED <<client, now, sockets, activeUsers, socketRooms, store, budget, sent, broadcasts>>

\* catch of saveChatMessage (lines 106-108): the call returns as a call that
\* has saved does, and send-message goes on from its await
FailSaveChatMessage ==
    /\ redisQueue # <<>>
    /\ Head(redisQueue).fn = "saveChatMessage"
    /\ LET cmd == Head(redisQueue)
       IN  /\ IF cmd.awaited
              THEN /\ emitted' = << NewMessage(socketRooms, cmd.message) >>
                   /\ broadcasts' = broadcasts + 1
                   /\ redisQueue' = Append(Caught(redisQueue),
                          SaveMsgCmd("hSet", cmd.socket, cmd.message, 0, FALSE))
              ELSE /\ emitted' = <<>>
                   /\ redisQueue' = Caught(redisQueue)
                   /\ UNCHANGED broadcasts
           /\ last' = Handled("console.error", cmd.socket)
    /\ UNCHANGED <<client, now, sockets, activeUsers, socketRooms, store, budget, sent>>

\* catch of getRoomMessages (lines 134-137): the call returns []
FailGetRoomMessages ==
    /\ redisQueue # <<>>
    /\ Head(redisQueue).fn = "getRoomMessages"
    /\ LET cmd == Head(redisQueue)
       IN  /\ emitted' = << SocketEmit(sockets, cmd.socket, "chat-history", <<>>) >>
           /\ last' = Handled("console.error", cmd.socket)
    /\ redisQueue' = Caught(redisQueue)
    /\ UNCHANGED <<client, now, sockets, activeUsers, socketRooms, store, budget, sent, broadcasts>>

\* The process ends: its sockets close, what it held in memory and what it
\* had in flight is lost, the store keeps what it has
Exit(op, c) ==
    /\ sockets' = [x \in Conns |-> "closed"]
    /\ activeUsers' = [x \in Conns |-> NoUser]
    /\ socketRooms' = [x \in Conns |-> {}]
    /\ redisQueue' = <<>>
    /\ emitted' = <<>>
    /\ last' = Handled(op, c)
    /\ UNCHANGED <<client, now, store, budget, sent, broadcasts>>

\* join-room with no payload (socket.emit('join-room')): the parameter
\* pattern { username, room } of the listener (line 169) throws a TypeError
\* when it is given undefined; Socket.IO calls the listener from a
\* process.nextTick callback with no try around it, and the server has no
\* 'uncaughtException' handler
JoinRoomNoPayload(c) ==
    /\ sockets[c] = "open"
    /\ Exit("uncaughtException", c)

\* send-message with no payload: the listener is async (line 218), so the
\* TypeError of its parameter pattern rejects the promise it returns, which
\* nobody handles; Node (18 in the Dockerfile) ends the process on an
\* unhandled rejection
SendMessageNoPayload(c) ==
    /\ sockets[c] = "open"
    /\ Exit("unhandledRejection", c)

\* startServer (lines 337-361): when the Redis clients have connected the
\* server listens; when a connect has thrown, the catch listens too.  The
\* clients connect once the server listens.
StartServer(connected) ==
    /\ last.op = "startServer"
    /\ sockets' = [c \in Conns |-> "open"]
    /\ last' = Handled(IF connected THEN "listen" ELSE "listen single node", "")
    /\ emitted' = <<>>
    /\ UNCHANGED <<client, now, activeUsers, socketRooms, store, redisQueue, budget, sent,
                   broadcasts>>

InitFaulty ==
    /\ now = ClockStart
    /\ sockets = [c \in Conns |-> "none"]
    /\ activeUsers = [c \in Conns |-> NoUser]
    /\ socketRooms = [c \in Conns |-> {}]
    /\ redisQueue = <<>>
    /\ emitted = <<>>
    /\ last = Handled("startServer", "")
    /\ sent = <<>>
    /\ broadcasts = 0
    /\ client = NoClient
    /\ EmptyStore
    /\ budget = [joins |-> FaultyJoins, sends |-> FaultySends,
                 ticks |-> FaultyTicks, queue |-> FaultyQueue]

NextFaulty ==
    \/ \E connected \in BOOLEAN : StartServer(connected)
    \/ \E c \in Conns, username \in Names, room \in Rooms : JoinRoom(c, username, room)
    \/ \E c \in Conns, message \in Bodies : SendMessage(c, message)
    \/ \E c \in Conns, isTyping \in BOOLEAN : Typing(c, isTyping)
    \/ \E c \in Conns : Disconnect(c)
    \/ ReplySaveUser
    \/ ReplyRemoveUser
    \/ ReplySaveChatMessage
    \/ ReplyGetRoomMessages
    \/ FailUserCommand
    \/ FailSaveChatMessage
    \/ FailGetRoomMessages
    \/ \E c \in Conns : JoinRoomNoPayload(c)
    \/ \E c \in Conns : SendMessageNoPayload(c)

SpecFaulty == InitFaulty /\ [][NextFaulty]_vars

\* ---------------------------------------------------- time that passes
\* Half of the time to live of a user record, in seconds
HalfTtl == UserTtl \div 2

\* The keys user:<id> that are alive `seconds` later: Redis removes a key
\* when its time to live has run out
Alive(seconds) == {c \in DOMAIN userHash : userTtl[c] = 0 \/ userTtl[c] > seconds}

\* Nothing is handled for `seconds` seconds, with no command in flight
Sleep(seconds) ==
    /\ redisQueue = <<>>
    /\ \E c \in Conns : userTtl[c] > 0
    /\ now' = now + seconds * 1000
    /\ userHash' = [c \in Alive(seconds) |-> userHash[c]]
    /\ userTtl' = [c \in Conns |-> IF userTtl[c] > seconds THEN userTtl[c] - seconds ELSE 0]
    /\ emitted' = <<>>
    /\ last' = Handled("sleep", "")
    /\ UNCHANGED <<client, sockets, activeUsers, socketRooms, roomUserSet, msgHash, roomMsgs,
                   redisQueue, budget, sent, broadcasts>>

\* s1 has joined r1 and its record is persisted, with its time to live
InitDay ==
    InitPast(0, [joins |-> DayJoins, sends |-> DaySends,
                 ticks |-> DayTicks, queue |-> DayQueue])

NextDay ==
    \/ \E c \in Conns, username \in Names, room \in Rooms : JoinRoom(c, username, room)
    \/ \E c \in Conns, message \in Bodies : SendMessage(c, message)
    \/ \E c \in Conns, isTyping \in BOOLEAN : Typing(c, isTyping)
    \/ \E c \in Conns : Disconnect(c)
    \/ ReplySaveUser
    \/ ReplyRemoveUser
    \/ ReplySaveChatMessage
    \/ ReplyGetRoomMessages
    \/ Sleep(HalfTtl)

SpecDay == InitDay /\ [][NextDay]_vars

\* ------------------------------------------------ the client's button
\* leaveRoom of App.tsx, called by the "Leave Room" button of the client of
\* socket c (shown once room-joined has arrived): it resets the client's
\* view of the room (isInRoom, currentRoom, messages, roomUsers), which the
\* model does not hold, and calls nothing on the socket: no event goes to
\* the server and the socket stays connected
LeaveRoom(c) ==
    /\ sockets[c] = "open"
    /\ activeUsers[c] # NoUser
    /\ emitted' = <<>>
    /\ last' = Handled("leaveRoom", c)
    /\ UNCHANGED <<client, now, sockets, activeUsers, socketRooms, store, redisQueue,
                   budget, sent, broadcasts>>

InitLeave ==
    /\ ServerUp
    /\ EmptyStore
    /\ budget = [joins |-> LeaveJoins, sends |-> LeaveSends,
                 ticks |-> LeaveTicks, queue |-> LeaveQueue]

NextLeave ==
    \/ \E c \in Conns, username \in Names, room \in Rooms : JoinRoom(c, username, room)
    \/ \E c \in Conns, message \in Bodies : SendMessage(c, message)
    \/ \E c \in Conns, isTyping \in BOOLEAN : Typing(c, isTyping)
    \/ \E c \in Conns : Disconnect(c)
    \/ ReplySaveUser
    \/ ReplyRemoveUser
    \/ ReplySaveChatMessage
    \/ ReplyGetRoomMessages
    \/ \E c \in Conns : LeaveRoom(c)

SpecLeave == InitLeave /\ [][NextLeave]_vars

\* ------------------------------------------------------ the join form
\* A string is the sequence of its characters; " " stands for the white
\* space String.prototype.trim removes and "a" for any other character
\* (of one UTF-16 code unit, so that length counts characters).
Spaces(n) == [i \in 1..n |-> " "]

Letters(n) == [i \in 1..n |-> "a"]

\* What is typed into a field of the form: nothing, white space only, words
\* at and around the limits of validateForm, with and without white space
\* around them, and two letters with a space between (the maxLength of the
\* input elements binds typing, not the value the component is given)
Words == {Letters(n) : n \in {0, 1, MinLength, UsernameMax, UsernameMax + 1,
                              RoomMax, RoomMax + 1}} \cup {<<"a", " ", "a">>}

Inputs == {Spaces(l) \o w \o Spaces(r) : l \in 0..1, r \in 0..1, w \in Words}

\* Trim that removes nothing
TrimNothing(str) == str

\* String.prototype.trim
RECURSIVE Trim(_)
Trim(str) ==
    IF str = <<>> THEN <<>>
    ELSE IF Head(str) = " " THEN Trim(Tail(str))
    ELSE IF str[Len(str)] = " " THEN Trim(SubSeq(str, 1, Len(str) - 1))
    ELSE str

\* newErrors of validateForm: the fields that get a message
NewErrors(username, room) ==
    (IF Trim(username) = <<>> THEN {"username"}
     ELSE IF Len(Trim(username)) < MinLength THEN {"username"}
     ELSE IF Len(Trim(username)) > UsernameMax THEN {"username"}
     ELSE {})
    \cup
    (IF Trim(room) = <<>> THEN {"room"}
     ELSE IF Len(Trim(room)) < MinLength THEN {"room"}
     ELSE IF Len(Trim(room)) > RoomMax THEN {"room"}
     ELSE {})

\* socket.emit('join-room', { username, room }) of joinRoom
JoinRoomEvent(username, room) == [ev |-> "join-room", username |-> username, room |-> room]

\* handleSubmit of JoinForm, with validateForm and, through onJoin, joinRoom
\* of App (whose socket is set from the first effect on)
HandleSubmit ==
    /\ client.submits < FormSubmits
    /\ IF ~client.isConnected
       THEN client' = [client EXCEPT !.submits = @ + 1, !.alerted = TRUE]
       ELSE LET newErrors == NewErrors(client.username, client.room)
            IN  client' = [client EXCEPT
                    !.submits = @ + 1,
                    !.alerted = FALSE,
                    !.errors = newErrors,
                    !.emits = IF newErrors = {}
                              THEN Append(@, JoinRoomEvent(Trim(client.username),
                                                           Trim(client.room)))
                              ELSE @]
    /\ UNCHANGED <<now, sockets, activeUsers, socketRooms, store, redisQueue, emitted,
                   last, budget, sent, broadcasts>>

\* newSocket.on('connect') and newSocket.on('disconnect') of App
OnConnection(isConnected) ==
    /\ client.isConnected # isConnected
    /\ client' = [client EXCEPT !.isConnected = isConnected]
    /\ UNCHANGED <<now, sockets, activeUsers, socketRooms, store, redisQueue, emitted,
                   last, budget, sent, broadcasts>>

\* The form is filled in, the socket connected or not; the server, which
\* the form does not read, is not listening yet
InitForm ==
    /\ now = ClockStart
    /\ sockets = [c \in Conns |-> "none"]
    /\ activeUsers = [c \in Conns |-> NoUser]
    /\ socketRooms = [c \in Conns |-> {}]
    /\ redisQueue = <<>>
    /\ emitted = <<>>
    /\ last = Handled("startServer", "")
    /\ sent = <<>>
    /\ broadcasts = 0
    /\ EmptyStore
    /\ budget = [joins |-> 0, sends |-> 0, ticks |-> 0, queue |-> 0]
    /\ \E isConnected \in BOOLEAN, username \in Inputs, room \in Inputs :
          client = [NoClient EXCEPT !.isConnected = isConnected,
                                    !.username = username, !.room = room]

NextForm ==
    \/ HandleSubmit
    \/ \E isConnected \in BOOLEAN : OnConnection(isConnected)

SpecForm == InitForm /\ [][NextForm]_vars

\* --------------------------------------------------- the message input
\* MessageInput (JoinForm.tsx 127-257) of a client that is in a room.  React
\* runs an event handler with the state of the last render and renders again
\* when the handler has returned, so that a handler, and every function it
\* makes, reads `isTyping` as it was before the handler ran.
\* `typingTimeout` is the timer typingTimeoutRef holds, with the isTyping its
\* callback reads (that of the render whose handleInputChange set the timer).
NoTimeout == [set |-> FALSE, isTyping |-> FALSE]

Timeout(isTyping) == [set |-> TRUE, isTyping |-> isTyping]

\* useState(''), useState(false), useRef(null); `emits` are the events the
\* client has emitted on its socket and `inputs` counts the events of the input
NoInput == [message |-> <<>>, isTyping |-> FALSE, typingTimeout |-> NoTimeout,
            emits |-> <<>>, inputs |-> 0]

\* What the input element holds after a change
Values == {<<>>, <<" ">>, <<"a">>, <<"a", "a">>, <<"a", " ">>}

\* The isTyping a function made by a handler reads: that of the render
\* before the handler ran, not the one the handler has set
ClosureOfHandler(before, after) == before

\* handleStartTyping, reading isTyping as `isTyping`: setIsTyping(true) and
\* onStartTyping(), which is startTyping of App (lines 126-130)
HandleStartTyping(input, isTyping) ==
    IF ~isTyping
    THEN [input EXCEPT !.isTyping = TRUE, !.emits = Append(@, "typing-start")]
    ELSE input

\* handleStopTyping, reading isTyping as `isTyping`: setIsTyping(false),
\* onStopTyping() (stopTyping of App, lines 132-136) and clearTimeout
HandleStopTyping(input, isTyping) ==
    [(IF isTyping
      THEN [input EXCEPT !.isTyping = FALSE, !.emits = Append(@, "typing-stop")]
      ELSE input)
     EXCEPT !.typingTimeout = NoTimeout]

\* The server, which the components of the client do not read, is not up
NoServer ==
    /\ now = ClockStart
    /\ sockets = [c \in Conns |-> "none"]
    /\ activeUsers = [c \in Conns |-> NoUser]
    /\ socketRooms = [c \in Conns |-> {}]
    /\ redisQueue = <<>>
    /\ emitted = <<>>
    /\ sent = <<>>
    /\ broadcasts = 0
    /\ EmptyStore
    /\ budget = [joins |-> 0, sends |-> 0, ticks |-> 0, queue |-> 0]

\* handleInputChange (lines 163-184)
HandleInputChange(value) ==
    LET isTyping == client.isTyping
        changed == [client EXCEPT !.message = value, !.inputs = @ + 1]
        typed == IF Trim(value) # <<>> /\ ~isTyping
                 THEN HandleStartTyping(changed, isTyping)
                 ELSE IF Trim(value) = <<>> /\ isTyping
                      THEN HandleStopTyping(changed, isTyping)
                      ELSE changed
        cleared == [typed EXCEPT !.typingTimeout = NoTimeout]
    IN  /\ client.inputs < InputEvents
        /\ client' = IF Trim(value) # <<>>
                     THEN [cleared EXCEPT !.typingTimeout =
                               Timeout(ClosureOfHandler(isTyping, typed.isTyping))]
                     ELSE cleared
        /\ last' = Handled("change", "")
        /\ UNCHANGED <<now, sockets, activeUsers, socketRooms, store, redisQueue, emitted,
                       budget, sent, broadcasts>>

\* handleSubmit of MessageInput (lines 153-161), `disabled` being false
\* (ChatRoom.tsx 108); onSendMessage is sendMessage of App (lines 120-124)
HandleSubmitMessage ==
    /\ client.inputs < InputEvents
    /\ client' =
           IF Trim(client.message) # <<>>
           THEN HandleStopTyping(
                    [client EXCEPT !.message = <<>>, !.inputs = @ + 1,
                                   !.emits = Append(@, "send-message")],
                    client.isTyping)
           ELSE [client EXCEPT !.inputs = @ + 1]
    /\ last' = Handled("submit", "")
    /\ UNCHANGED <<now, sockets, activeUsers, socketRooms, store, redisQueue, emitted,
                   budget, sent, broadcasts>>

\* The callback of setTimeout(..., 2000) (lines 180-182) runs: nothing has
\* changed the input for 2 seconds
TypingTimeout ==
    /\ client.typingTimeout.set
    /\ client' = HandleStopTyping(client, client.typingTimeout.isTyping)
    /\ last' = Handled("timeout", "")
    /\ UNCHANGED <<now, sockets, activeUsers, socketRooms, store, redisQueue, emitted,
                   budget, sent, broadcasts>>

InitInput ==
    /\ NoServer
    /\ last = Handled("mount", "")
    /\ client = NoInput

NextInput ==
    \/ \E value \in Values : HandleInputChange(value)
    \/ HandleSubmitMessage
    \/ TypingTimeout

SpecInput == InitInput /\ [][NextInput]_vars

\* ------------------------------------------------- what the clients see
\* The React state of App (App.tsx 21-28) of the browser behind every socket:
\* in SpecView `client` is a function from the socket ids to these records.
\* A client handles the events of its socket in the order in which the server
\* emitted them; here it handles them before the server takes its next step,
\* which is one of the schedules of the network.
NoView == [isConnected |-> FALSE, currentUser |-> "", currentRoom |-> "",
           isInRoom |-> FALSE, messages |-> <<>>, roomUsers |-> {}, typingUsers |-> {}]

\* The entry the handlers of room-joined, user-joined and user-left append
\* (its id and timestamp are the client's clock, which nothing reads)
SystemMessage(e) ==
    ChatMessage(0, "System", [ev |-> e.ev, username |-> e.data.username], 0, e.data.room)

\* The listener of event e.ev of the client of socket c (App.tsx 47-104)
On(view, c, e) ==
    IF c \notin e.to THEN view
    ELSE CASE e.ev = "room-joined" ->
                 [view EXCEPT !.isInRoom = TRUE, !.messages = Append(@, SystemMessage(e))]
           [] e.ev \in {"user-joined", "user-left"} ->
                 [view EXCEPT !.messages = Append(@, SystemMessage(e))]
           [] e.ev = "room-users" -> [view EXCEPT !.roomUsers = e.data]
           [] e.ev = "chat-history" -> [view EXCEPT !.messages = e.data]
           [] e.ev = "new-message" -> [view EXCEPT !.messages = Append(@, e.data)]
           [] e.ev = "user-typing" ->
                 [view EXCEPT !.typingUsers =
                      IF e.data.isTyping THEN @ \cup {e.data.username}
                      ELSE @ \ {e.data.username}]

RECURSIVE Receive(_, _, _)
Receive(view, c, events) ==
    IF events = <<>> THEN view
    ELSE Receive(On(view, c, Head(events)), c, Tail(events))

\* joinRoom of App (lines 111-118), up to its emit
JoinRoomView(view, user) ==
    [view EXCEPT !.currentUser = user.username, !.currentRoom = user.room,
                 !.messages = <<>>]

\* What the client of socket c did when it started the last step, or does
\* when that step reaches it: joinRoom for a join-room, the listener of
\* 'disconnect' (lines 41-44) for a socket that has closed
ClientPart(view, c) ==
    IF last.socket # c THEN view
    ELSE IF last.op = "join-room" THEN JoinRoomView(view, activeUsers[c])
    ELSE IF last.op = "disconnect" THEN [view EXCEPT !.isConnected = FALSE]
    ELSE view

\* The clients have not yet handled what the last step brought them
Pending == emitted # <<>> \/ last.op \in {"join-room", "disconnect"}

Deliver ==
    /\ Pending
    /\ client' = [c \in Conns |-> Receive(ClientPart(client[c], c), c, emitted)]
    /\ emitted' = <<>>
    /\ last' = Handled("deliver", last.socket)
    /\ UNCHANGED <<now, sockets, activeUsers, socketRooms, store, redisQueue, budget,
                   sent, broadcasts>>

\* leaveRoom of App (lines 138-145), with the state of the client
LeaveRoomView(c) ==
    /\ client[c].isInRoom
    /\ client' = [client EXCEPT ![c] =
           [@ EXCEPT !.isInRoom = FALSE, !.currentRoom = "", !.currentUser = "",
                     !.messages = <<>>, !.roomUsers = {}, !.typingUsers = {}]]
    /\ emitted' = <<>>
    /\ last' = Handled("leaveRoom", c)
    /\ UNCHANGED <<now, sockets, activeUsers, socketRooms, store, redisQueue, budget,
                   sent, broadcasts>>

\* A browser opens the client, whose socket connects and gets id c:
\* io.on('connection') of the server, newSocket.on('connect') of the client
Connect(c) ==
    /\ sockets[c] = "none"
    /\ sockets' = [sockets EXCEPT ![c] = "open"]
    /\ client' = [client EXCEPT ![c] = [NoView EXCEPT !.isConnected = TRUE]]
    /\ emitted' = <<>>
    /\ last' = Handled("connection", c)
    /\ UNCHANGED <<now, activeUsers, socketRooms, store, redisQueue, budget, sent,
                   broadcasts>>

\* The client whose socket had id c and has closed connects again (the
\* socket of io() reconnects by itself) and gets a new id d: the server is
\* given a new socket, the client keeps its state and handles 'connect'
Reconnect(c, d) ==
    /\ sockets[c] = "closed"
    /\ ~client[c].isConnected
    /\ sockets[d] = "none"
    /\ sockets' = [sockets EXCEPT ![d] = "open"]
    /\ client' = [client EXCEPT ![d] = [client[c] EXCEPT !.isConnected = TRUE],
                                ![c] = NoView]
    /\ emitted' = <<>>
    /\ last' = Handled("connection", d)
    /\ UNCHANGED <<now, activeUsers, socketRooms, store, redisQueue, budget, sent,
                   broadcasts>>

\* The log of r1 as it was read when s1 joined
PastMessages == [i \in 1..ViewPast |-> PastMessage(i)]

\* s1 has joined r1 as alice, its record is persisted and its client has
\* been sent the history of r1; no other client has connected
InitView ==
    /\ now = ClockStart
    /\ sockets = [c \in Conns |-> IF c = "s1" THEN "open" ELSE "none"]
    /\ activeUsers = [c \in Conns |->
            IF c = "s1" THEN User("s1", "alice", LoadedRoom, ClockStart) ELSE NoUser]
    /\ socketRooms = [c \in Conns |-> IF c = "s1" THEN {LoadedRoom} ELSE {}]
    /\ userHash = ("s1" :> User("s1", "alice", LoadedRoom, ClockStart))
    /\ userTtl = [c \in Conns |-> IF c = "s1" THEN UserTtl ELSE 0]
    /\ roomUserSet = [r \in Rooms |-> IF r = LoadedRoom THEN {"s1"} ELSE {}]
    /\ msgHash = PastMessages
    /\ roomMsgs = [r \in Rooms |->
           IF r = LoadedRoom
           THEN [i \in 1..ViewPast |-> [score |-> i, value |-> i]]
           ELSE <<>>]
    /\ redisQueue = <<>>
    /\ emitted = <<>>
    /\ last = Handled("listen", "")
    /\ sent = <<>>
    /\ broadcasts = 0
    /\ budget = [joins |-> ViewJoins, sends |-> ViewSends,
                 ticks |-> ViewTicks, queue |-> ViewQueue]
    /\ client = [c \in Conns |->
           IF c = "s1"
           THEN [isConnected |-> TRUE, currentUser |-> "alice", currentRoom |-> LoadedRoom,
                 isInRoom |-> TRUE, messages |-> PastMessages,
                 roomUsers |-> {[id |-> "s1", username |-> "alice"]}, typingUsers |-> {}]
           ELSE NoView]

\* The events a client emits are those its components can emit: join-room
\* from the join form, shown while the client is not in a room and submitted
\* while it is connected; send-message and typing from the chat room
NextView ==
    \/ Deliver
    \/ \E c \in Conns, username \in Names, room \in Rooms :
          /\ ~Pending
          /\ client[c].isConnected /\ ~client[c].isInRoom
          /\ JoinRoom(c, username, room)
    \/ \E c \in Conns, message \in Bodies :
          ~Pending /\ client[c].isInRoom /\ SendMessage(c, message)
    \/ \E c \in Conns, isTyping \in BOOLEAN :
          ~Pending /\ client[c].isInRoom /\ Typing(c, isTyping)
    \/ \E c \in Conns : ~Pending /\ Disconnect(c)
    \/ ~Pending /\ ReplySaveUser
    \/ ~Pending /\ ReplyRemoveUser
    \/ ~Pending /\ ReplySaveChatMessage
    \/ ~Pending /\ ReplyGetRoomMessages
    \/ \E c \in Conns : ~Pending /\ LeaveRoomView(c)
    \/ \E c \in Conns : ~Pending /\ Connect(c)
    \/ \E c, d \in Conns : ~Pending /\ Reconnect(c, d)

SpecView == InitView /\ [][NextView]_vars

\* ============================================================ claims
\* The entry of socket c is in the participant list of `room`
Listed(au, c, room) == \E e \in RoomUsersOf(au, room) : e.id = c

\* The step is join-room of c into `room`
IsJoin(c, room) ==
    /\ last'.op = "join-room"
    /\ last'.socket = c
    /\ activeUsers'[c].room = room

\* C1: when a socket that is a participant of room r1 joins another room r2,
\* it is afterwards in the participant list of r2 and in that of no other
\* room, and the room-users list the join sends to r2 holds it.
C1_SwitchMovesParticipant ==
    [][\A c \in Conns, r2 \in Rooms :
          (IsJoin(c, r2) /\ activeUsers[c] # NoUser /\ activeUsers[c].room # r2)
          => /\ Listed(activeUsers', c, r2)
             /\ \A r1 \in Rooms \ {r2} : ~Listed(activeUsers', c, r1)
             /\ \E i \in 1..Len(emitted') :
                   /\ emitted'[i].ev = "room-users"
                   /\ emitted'[i].data = RoomUsersOf(activeUsers', r2)
                   /\ \E e \in emitted'[i].data : e.id = c]_vars

\* A socket has just switched rooms: its join told the room it left
C1_Switched ==
    /\ last.op = "join-room"
    /\ Len(emitted) = 4
    /\ emitted[1].ev = "user-left"
    /\ emitted[1].data.room # activeUsers[last.socket].room
    /\ Listed(activeUsers, last.socket, activeUsers[last.socket].room)

\* C2: every socket is in at most one room: it is in the participant list of
\* at most one room, it is subscribed to at most one Socket.IO room, that
\* room is the one of its presence entry, and without an entry (never
\* joined, or disconnected) it is subscribed to none.
C2_OneRoomPerSocket ==
    \A c \in Conns :
        /\ Cardinality({r \in Rooms : Listed(activeUsers, c, r)}) <= 1
        /\ Cardinality(socketRooms[c]) <= 1
        /\ socketRooms[c] = IF activeUsers[c] = NoUser THEN {} ELSE {activeUsers[c].room}
        /\ sockets[c] = "closed" => activeUsers[c] = NoUser

\* Two joins of one socket into two rooms have been handled and persisted,
\* and a message of it is in flight
C2_AfterSwitch ==
    \E c \in Conns :
        /\ \A r \in Rooms : c \in roomUserSet[r]
        /\ socketRooms[c] # {}
        /\ \E i \in 1..Len(redisQueue) :
              redisQueue[i].fn = "saveChatMessage" /\ redisQueue[i].socket = c

\* The sockets whose presence entry is in `room`
Members(au, room) == {c \in Conns : au[c] # NoUser /\ au[c].room = room}

\* The saveChatMessage calls send-message is waiting for
Awaited == {i \in 1..Len(redisQueue) :
               redisQueue[i].fn = "saveChatMessage" /\ redisQueue[i].awaited}

\* The step broadcasts a message
IsBroadcast == last'.op = "saveChatMessage" /\ emitted' # <<>>

\* What C3 says of sends and broadcasts, but for the sender's own copy:
\* send-message of a joined socket makes one message with the sender's
\* username and room; every message made is broadcast once, when its save
\* has returned; the broadcast is one new-message with that message, to
\* exactly the sockets that are participants of the message's room then.
C3_Relay ==
    /\ \A c \in Conns :
          (last'.op = "send-message" /\ last'.socket = c /\ activeUsers[c] # NoUser)
          => /\ Len(sent') = Len(sent) + 1
             /\ sent'[Len(sent')].username = activeUsers[c].username
             /\ sent'[Len(sent')].room = activeUsers[c].room
             /\ sent'[Len(sent')].message \in Bodies
             /\ redisQueue' = Append(redisQueue,
                    SaveMsgCmd("hSet", c, sent'[Len(sent')], 0, TRUE))
             /\ emitted' = <<>>
    /\ Len(sent') = broadcasts' + Cardinality(Awaited')
    /\ IsBroadcast
          => /\ Len(emitted') = 1
             /\ emitted'[1].ev = "new-message"
             /\ emitted'[1].data = Head(redisQueue).message
             /\ emitted'[1].to = Members(activeUsers', Head(redisQueue).message.room)
             /\ broadcasts' = broadcasts + 1
    /\ broadcasts' # broadcasts => IsBroadcast

\* C3 as stated: the broadcast of a message reaches its sender too,
\* whatever was handled while send-message waited for the store.
C3_SenderIncluded ==
    [][C3_Relay /\ (IsBroadcast => Head(redisQueue).socket \in emitted'[1].to)]_vars

\* C3 as amended: one new-message per send-message of a joined socket, with
\* the sender's username, the body and the sender's room of the time of the
\* send, to exactly the sockets joined to that room at the broadcast; the
\* sender gets it if it is still joined to that room then.
C3_RelayToRoom == [][C3_Relay]_vars

\* A message has been broadcast to its sender and to the other socket
C3_Relayed ==
    /\ last.op = "saveChatMessage"
    /\ Len(emitted) = 1
    /\ emitted[1].to = Conns
    /\ last.socket \in emitted[1].to

\* C4: send-message of a socket without a participant record emits
\* nothing, puts no command in flight and changes nothing of the store.
C4_UnjoinedSendDropped ==
    [][\A c \in Conns :
          (last'.op = "send-message" /\ last'.socket = c /\ activeUsers[c] = NoUser)
          => /\ emitted' = <<>>
             /\ redisQueue' = redisQueue
             /\ UNCHANGED <<store, sent, broadcasts, activeUsers, socketRooms>>]_vars

\* A socket that has not joined has sent a message, while another socket is in a room
C4_UnjoinedSent ==
    /\ last.op = "send-message"
    /\ activeUsers[last.socket] = NoUser
    /\ \E d \in Conns : activeUsers[d] # NoUser

\* C5: disconnect of a joined socket emits one user-left and one room-users,
\* both to the other participants of the room of its presence entry (the room
\* it joined last) and to nobody else; the list is without it; disconnect of
\* a socket that has no entry emits nothing.
C5_DisconnectNotifiesLatestRoom ==
    [][\A c \in Conns :
          (last'.op = "disconnect" /\ last'.socket = c)
          => IF activeUsers[c] = NoUser
             THEN emitted' = <<>>
             ELSE LET user == activeUsers[c]
                      others == Members(activeUsers, user.room) \ {c}
                  IN  /\ Len(emitted') = 2
                      /\ emitted'[1].ev = "user-left"
                      /\ emitted'[1].to = others
                      /\ emitted'[1].data = [username |-> user.username, room |-> user.room]
                      /\ emitted'[2].ev = "room-users"
                      /\ emitted'[2].to = others
                      /\ ~ \E e \in emitted'[2].data : e.id = c
                      /\ activeUsers'[c] = NoUser]_vars

\* A socket that had switched rooms has disconnected; the room it had left
\* has a participant, who is told nothing
C5_DisconnectedAfterSwitch ==
    /\ last.op = "disconnect"
    /\ Len(emitted) = 2
    /\ \E r \in Rooms :
          /\ r # emitted[1].data.room
          /\ last.socket \in roomUserSet[r]
          /\ Members(activeUsers, r) # {}
          /\ Members(activeUsers, r) \cap emitted[1].to = {}

\* The entries of the sockets joined to `room`
Entries(au, room) == {[id |-> c, username |-> au[c].username] : c \in Members(au, room)}

\* One room-users is emitted, to the sockets joined to `room` and listing them
RoomUsersSent(em, au, room) ==
    /\ Cardinality({i \in 1..Len(em) : em[i].ev = "room-users"}) = 1
    /\ \E i \in 1..Len(em) :
          /\ em[i].ev = "room-users"
          /\ em[i].to = Members(au, room)
          /\ em[i].data = Entries(au, room)

\* C6: join-room and the disconnect of a joined socket send one room-users to
\* the sockets that are joined to the room afterwards, and its entries are
\* those sockets, one {id, username} each.
C6_RoomUsersIsMembership ==
    [][\A c \in Conns :
          /\ (last'.op = "join-room" /\ last'.socket = c)
             => RoomUsersSent(emitted', activeUsers', activeUsers'[c].room)
          /\ (last'.op = "disconnect" /\ last'.socket = c /\ activeUsers[c] # NoUser)
             => RoomUsersSent(emitted', activeUsers', activeUsers[c].room)]_vars

\* After two joins into one room a disconnect leaves a list of one entry to
\* the socket that remains
C6_OneLeft ==
    /\ last.op = "disconnect"
    /\ Len(emitted) = 2
    /\ Cardinality(emitted[2].data) = 1
    /\ Cardinality(emitted[2].to) = 1
    /\ emitted[2].to = {c \in Conns : \E e \in emitted[2].data : e.id = c}

\* The step sends a chat-history
IsHistory == last'.op = "getRoomMessages" /\ emitted' # <<>>

Chronological(messages) ==
    \A i, j \in 1..Len(messages) :
        i < j => messages[i].timestamp <= messages[j].timestamp

Min(a, b) == IF a < b THEN a ELSE b

\* The last k entries of a sequence
LastOf(q, k) == SubSeq(q, Len(q) - Min(k, Len(q)) + 1, Len(q))

GetRoomMessagesCalls ==
    Cardinality({i \in 1..Len(redisQueue) : redisQueue[i].fn = "getRoomMessages"})

\* What C7 says but for the order: a join-room starts one read of the log of
\* its room; the read takes the ids of the last min(50, n) entries of the
\* index, n entries being there when it is made, and the record of each of
\* them; what it has read goes as one chat-history to the socket that joined
\* and to no other.
C7_Read ==
    /\ last'.op = "join-room"
          => /\ GetRoomMessagesCalls' = GetRoomMessagesCalls + 1
             /\ redisQueue'[Len(redisQueue')] =
                    GetMsgsCmd("zRange", last'.socket, activeUsers'[last'.socket].room,
                               HistoryLimit, <<>>, <<>>)
    /\ last'.op = "getRoomMessages"
          => LET cmd == Head(redisQueue)
                 index == roomMsgs[cmd.room]
                 k == Min(HistoryLimit, Len(index))
                 tail == LastOf(index, HistoryLimit)
                 next == redisQueue'[Len(redisQueue')]
             IN  /\ (cmd.pc = "zRange" /\ k > 0)
                       => /\ ~IsHistory
                          /\ next.socket = cmd.socket /\ next.room = cmd.room
                          /\ next.ids = [i \in 1..k |-> tail[i].value]
                          /\ next.messages = <<>>
                 /\ (cmd.pc = "zRange" /\ k = 0)
                       => IsHistory /\ emitted'[1].data = <<>>
                 /\ cmd.pc = "hGetAll"
                       => /\ Head(cmd.ids) \in DOMAIN msgHash
                          /\ IF Len(cmd.ids) > 1
                             THEN /\ ~IsHistory
                                  /\ next.ids = Tail(cmd.ids)
                                  /\ next.messages =
                                         Append(cmd.messages, msgHash[Head(cmd.ids)])
                             ELSE /\ IsHistory
                                  /\ emitted'[1].data =
                                         Append(cmd.messages, msgHash[Head(cmd.ids)])
                 /\ IsHistory
                       => /\ Len(emitted') = 1
                          /\ emitted'[1].ev = "chat-history"
                          /\ emitted'[1].to = IF sockets[cmd.socket] = "open"
                                              THEN {cmd.socket} ELSE {}
                          /\ GetRoomMessagesCalls' = GetRoomMessagesCalls - 1

\* C7: the socket that joins, and no other, gets one chat-history for the
\* join, with the min(50, n) most recent messages of the log of the room, in
\* chronological order.
C7_HistoryChronological ==
    [][C7_Read /\ (IsHistory => Chronological(emitted'[1].data))]_vars

\* getRoomMessages(room, limit) on the store as it is
Recent(room, limit) ==
    LET messageIds == ZRange(roomMsgs[room], limit)
        found == SelectSeq(messageIds, LAMBDA id : id \in DOMAIN msgHash)
    IN  [i \in 1..Len(found) |-> msgHash[found[i]]]

\* The messages sent to the loaded room, in the order of their sending
Appended ==
    [i \in 1..HistoryCap |-> PastMessage(i)] \o
    SelectSeq(sent, LAMBDA m : m.room = LoadedRoom)

NoSaveInFlight ==
    \A i \in 1..Len(redisQueue) : redisQueue[i].fn # "saveChatMessage"

\* C8: when N > 100 messages have been appended to the room and no append is
\* under way, getRoomMessages(room, 200) returns 100 messages, the 100 sent
\* last, in ascending order of timestamp.
C8_RecentIsLastHundred ==
    (NoSaveInFlight /\ Len(Appended) > HistoryCap)
    => /\ Len(Recent(LoadedRoom, 2 * HistoryCap)) = HistoryCap
       /\ Recent(LoadedRoom, 2 * HistoryCap) = LastOf(Appended, HistoryCap)
       /\ Chronological(Recent(LoadedRoom, 2 * HistoryCap))

\* The calls of saveChatMessage for `room` that have made their zAdd call
\* and wait for the reply of their zRemRangeByRank
Untrimmed(room) ==
    {i \in 1..Len(redisQueue) :
        /\ redisQueue[i].fn = "saveChatMessage"
        /\ redisQueue[i].pc = "zRem"
        /\ redisQueue[i].message.room = room}

\* C9 as stated: the index of a room holds at most 100 entries in every
\* state, the states between the commands of an append among them.
C9_IndexWithinCap == \A r \in Rooms : Len(roomMsgs[r]) <= HistoryCap

\* C9 as amended: the index of a room holds at most 100 entries and one more
\* for each append to the room that waits for its trim; it holds at most 100
\* whenever no append to the room is between its zAdd and its trim.
C9_IndexWithinCapButForPendingTrims ==
    \A r \in Rooms : Len(roomMsgs[r]) <= HistoryCap + Cardinality(Untrimmed(r))

\* Two appends to a full log wait for their trims: the index holds 102 entries
C9_TwoOverCap == \E r \in Rooms : Len(roomMsgs[r]) = HistoryCap + 2

SavesOf(c) == {i \in 1..Len(redisQueue) :
                  redisQueue[i].fn = "saveUserToRedis" /\ redisQueue[i].user.id = c}

RemovalsIn(queue, c) == {i \in 1..Len(queue) :
                            queue[i].fn = "removeUserFromRedis" /\ queue[i].userId = c}

RemovalsOf(c) == RemovalsIn(redisQueue, c)

\* A closed socket has no presence entry; when the removal its disconnect
\* started has completed, its record is not in the store and nothing in
\* flight can write the record or the user set again
Removed(c) ==
    sockets[c] = "closed"
    => /\ activeUsers[c] = NoUser
       /\ RemovalsOf(c) = {}
             => /\ c \notin DOMAIN userHash
                /\ userTtl[c] = 0
                /\ \A i \in SavesOf(c) : redisQueue[i].pc = "expire"

C12_JoinEmitsInOrder ==
    [][/\ \A c \in Conns :
             (last'.op = "join-room" /\ last'.socket = c)
             => LET prev == activeUsers[c]
                    user == activeUsers'[c]
                    off == IF prev = NoUser THEN 0 ELSE 1
                    payload == [username |-> user.username, room |-> user.room]
                IN  /\ Len(emitted') = off + 3
                    /\ prev # NoUser
                          => /\ emitted'[1].ev = "user-left"
                             /\ emitted'[1].to = Members(activeUsers, prev.room) \ {c}
                             /\ emitted'[1].data.username = prev.username
                             /\ emitted'[1].data.room = prev.room
                    /\ emitted'[off + 1] =
                           Emit("user-joined", Members(activeUsers', user.room) \ {c}, payload)
                    /\ emitted'[off + 2] = Emit("room-joined", {c}, payload)
                    /\ emitted'[off + 3].ev = "room-users"
                    /\ emitted'[off + 3].to = Members(activeUsers', user.room)
                    /\ c \in emitted'[off + 3].to
                    /\ \E i \in 1..Len(redisQueue') :
                          /\ i > Len(redisQueue)
                          /\ redisQueue'[i].fn = "getRoomMessages"
                          /\ redisQueue'[i].socket = c
                          /\ redisQueue'[i].room = user.room
       /\ \A i \in 1..Len(emitted') :
             emitted'[i].ev = "chat-history"
             => /\ last'.op = "getRoomMessages"
                /\ Len(emitted') = 1
                /\ emitted'[i].to \subseteq {last'.socket}]_vars

\* A socket has joined again the room it shares with the other socket: all
\* four events have gone out, and the other socket is told of both the
\* leaving and the joining
C12_FourEvents ==
    /\ last.op = "join-room"
    /\ Len(emitted) = 4
    /\ emitted[1].to # {}
    /\ emitted[2].to # {}
    /\ emitted[4].to = Conns

\* C13: typing-start (typing-stop) of a joined socket emits one user-typing
\* with the username of its entry and isTyping TRUE (FALSE) to the other
\* sockets joined to its room; of a socket without entry it emits nothing.
C13_TypingToOthers ==
    [][\A c \in Conns :
          (last'.op \in {"typing-start", "typing-stop"} /\ last'.socket = c)
          => IF activeUsers[c] = NoUser
             THEN emitted' = <<>>
             ELSE emitted' =
                     << Emit("user-typing", Members(activeUsers, activeUsers[c].room) \ {c},
                             [username |-> activeUsers[c].username,
                              isTyping |-> last'.op = "typing-start"]) >>]_vars

\* A socket types in a room it shares with the other socket
C13_Typed ==
    /\ last.op = "typing-stop"
    /\ Len(emitted) = 1
    /\ emitted[1].to = Conns \ {last.socket}
    /\ emitted[1].data.isTyping = FALSE

\* C14: the presence entry of a socket changes only in its own join-room
\* (to an entry) and its own disconnect (from an entry to none); the steps of
\* send-message, typing-start and typing-stop change neither the presence
\* map nor the persisted user records and user sets.
C14_PresenceFrame ==
    [][/\ \A c \in Conns :
             activeUsers'[c] # activeUsers[c]
             => /\ last'.socket = c
                /\ \/ last'.op = "join-room" /\ activeUsers'[c] # NoUser
                   \/ /\ last'.op = "disconnect"
                      /\ activeUsers[c] # NoUser
                      /\ activeUsers'[c] = NoUser
       /\ last'.op \in {"send-message", "typing-start", "typing-stop"}
             => UNCHANGED <<activeUsers, socketRooms, userHash, userTtl, roomUserSet>>]_vars

\* A joined socket has sent a message while the other socket is joined too
C14_SentAmongJoined ==
    /\ last.op = "send-message"
    /\ \A c \in Conns : activeUsers[c] # NoUser
    /\ redisQueue # <<>>

\* The step ends the process
IsExit == last'.op \in {"uncaughtException", "unhandledRejection"}

\* The step is the catch of a store function
IsCaught == last'.op = "console.error"

\* C15: no event of a client, whatever its payload, and no rejected store
\* command ends the server process or leaves an error unhandled.
C15_NothingFatal == [][~IsExit]_vars

\* C16: startServer listens whether the store has connected or not; a
\* rejected command changes nothing in the store and is not issued again,
\* and the function that issued it issues no further command: the call
\* returns, chat-history goes out empty, and send-message broadcasts and
\* makes its second call as after a save; join-room, typing and disconnect
\* update the presence map and emit as with a healthy store.
C16_FailuresDropped ==
    [][/\ last.op = "startServer"
             => /\ last'.op \in {"listen", "listen single node"}
                /\ \A c \in Conns : sockets'[c] = "open"
       /\ IsCaught
             => LET cmd == Head(redisQueue)
                IN  /\ UNCHANGED <<store, activeUsers, socketRooms, sockets>>
                    /\ IF cmd.fn = "saveChatMessage" /\ cmd.awaited
                       THEN /\ emitted' =
                                   << Emit("new-message",
                                           Members(activeUsers, cmd.message.room),
                                           cmd.message) >>
                            /\ redisQueue' = Append(Tail(redisQueue),
                                   SaveMsgCmd("hSet", cmd.socket, cmd.message, 0, FALSE))
                       ELSE /\ redisQueue' = Tail(redisQueue)
                            /\ emitted' =
                                   IF cmd.fn = "getRoomMessages"
                                   THEN << Emit("chat-history",
                                                IF sockets[cmd.socket] = "open"
                                                THEN {cmd.socket} ELSE {},
                                                <<>>) >>
                                   ELSE <<>>
       /\ \A c \in Conns :
             /\ (last'.op = "join-room" /\ last'.socket = c)
                   => /\ activeUsers'[c] # NoUser
                      /\ \E i \in 1..Len(emitted') :
                            emitted'[i] = Emit("room-joined", {c},
                                [username |-> activeUsers'[c].username,
                                 room |-> activeUsers'[c].room])
                      /\ RoomUsersSent(emitted', activeUsers', activeUsers'[c].room)
             /\ (last'.op = "disconnect" /\ last'.socket = c /\ activeUsers[c] # NoUser)
                   => /\ activeUsers'[c] = NoUser
                      /\ Len(emitted') = 2
                      /\ emitted'[1].ev = "user-left"
                      /\ RoomUsersSent(emitted', activeUsers', activeUsers[c].room)
             /\ (last'.op \in {"typing-start", "typing-stop"} /\ last'.socket = c
                    /\ activeUsers[c] # NoUser)
                   => Len(emitted') = 1 /\ emitted'[1].ev = "user-typing"]_vars

\* The save of a message has been rejected and the message has been
\* broadcast to the two sockets of its room; the store has no record of it
C16_BroadcastUnsaved ==
    /\ last.op = "console.error"
    /\ Len(emitted) = 1
    /\ emitted[1].ev = "new-message"
    /\ emitted[1].to = Conns
    /\ emitted[1].data.id \notin DOMAIN msgHash

\* The events by which a participant is active
Activity == {"join-room", "send-message", "typing-start", "typing-stop"}

\* The record of socket c runs out in the step
Expires(c) == last'.op = "sleep" /\ c \in DOMAIN userHash /\ c \notin DOMAIN userHash'

\* A record that is persisted and not being written has a time to live
HasTtl(c) == (c \in DOMAIN userHash /\ SavesOf(c) = {}) => userTtl[c] > 0

\* C17: the record of a participant has a time to live, so that it expires
\* without a leave or a disconnect; the 24 hours run from the participant's
\* last activity: a record does not expire in the 12 hours that follow an
\* event of its participant.
C17_ExpiresAfterInactivity ==
    [][\A c \in Conns :
          /\ HasTtl(c)'
          /\ Expires(c) => ~(last.socket = c /\ last.op \in Activity)]_vars

\* C18: the record of a message, once written, is never changed: a later
\* hSet under its id, of the second save of its send or of another send,
\* leaves its id, username, message, timestamp and room as they are.
C18_RecordsImmutable ==
    [][\A id \in DOMAIN msgHash : id \in DOMAIN msgHash' /\ msgHash'[id] = msgHash[id]]_vars

\* C19: after leaveRoom of the client of a socket the server holds no
\* presence entry for the socket, the socket is subscribed to no room, the
\* others in the room have been sent user-left and a room-users without it,
\* and the next new-message does not go to the socket.
C19_LeaveRoomExits ==
    [][/\ \A c \in Conns :
             (last'.op = "leaveRoom" /\ last'.socket = c)
             => LET room == activeUsers[c].room
                    others == Members(activeUsers, room) \ {c}
                IN  /\ activeUsers'[c] = NoUser
                    /\ socketRooms'[c] = {}
                    /\ \E i \in 1..Len(emitted') :
                          emitted'[i].ev = "user-left" /\ emitted'[i].to = others
                    /\ \E i \in 1..Len(emitted') :
                          /\ emitted'[i].ev = "room-users"
                          /\ emitted'[i].to = others
                          /\ ~ \E e \in emitted'[i].data : e.id = c
       /\ last.op = "leaveRoom"
             => \A i \in 1..Len(emitted') :
                   emitted'[i].ev = "new-message" => last.socket \notin emitted'[i].to]_vars

\* `trimmed` is `str` without the white space at its two ends
IsTrimOf(trimmed, str) ==
    /\ trimmed = <<>> \/ (trimmed[1] # " " /\ trimmed[Len(trimmed)] # " ")
    /\ Len(trimmed) <= Len(str)
    /\ \E l \in 0..(Len(str) - Len(trimmed)) :
          str = Spaces(l) \o trimmed \o Spaces(Len(str) - Len(trimmed) - l)

\* The step is a submit of the form
IsSubmit == client'.submits = client.submits + 1

\* C20: a submit of the form emits join-room when the client is connected,
\* the username without the white space at its ends has 2 to 20 characters
\* and the room name without it has 2 to 30, and then with these two as
\* username and room; any other submit, and any other step of the client,
\* emits nothing.
C20_SubmitEmitsValidTrimmed ==
    [][/\ IsSubmit
             => \E username \in Inputs :
                   /\ IsTrimOf(username, client.username)
                   /\ \E room \in Inputs :
                         /\ IsTrimOf(room, client.room)
                         /\ IF /\ client.isConnected
                               /\ Len(username) \in MinLength..UsernameMax
                               /\ Len(room) \in MinLength..RoomMax
                            THEN client'.emits = Append(client.emits,
                                     [ev |-> "join-room", username |-> username, room |-> room])
                            ELSE client'.emits = client.emits
       /\ ~IsSubmit => client'.emits = client.emits]_vars

\* A form filled in with a username of 20 letters and a room name of 30,
\* with white space around both, has been submitted, and join-room has gone
\* out with the two names without the white space
C20_SubmittedAtLimits ==
    /\ Len(client.emits) = 1
    /\ client.username = Spaces(1) \o Letters(UsernameMax) \o Spaces(1)
    /\ client.room = Spaces(1) \o Letters(RoomMax) \o Spaces(1)
    /\ client.emits[1].username = Letters(UsernameMax)
    /\ client.emits[1].room = Letters(RoomMax)

\* The rooms whose persisted user set holds socket id c
PersistedRooms(c) == {r \in Rooms : c \in roomUserSet[r]}

\* C23: when no store command is in flight, a socket id is in the persisted
\* user set of at most one room, that room is the room of its persisted user
\* record, and the id of a disconnected socket is in no room's set.
C23_PersistedMirrorsLive ==
    redisQueue = <<>>
    => \A c \in Conns :
          /\ Cardinality(PersistedRooms(c)) <= 1
          /\ \A r \in PersistedRooms(c) : c \in DOMAIN userHash /\ userHash[c].room = r
          /\ sockets[c] = "closed" => PersistedRooms(c) = {}

\* The ids of the persisted message records that belong to `room`
RecordsOf(room) == {id \in DOMAIN msgHash : msgHash[id].room = room}

\* The calls of saveChatMessage for `room` that have a command in flight
SavesInFlight(room) ==
    {i \in 1..Len(redisQueue) :
        redisQueue[i].fn = "saveChatMessage" /\ redisQueue[i].message.room = room}

\* C30: for every room, the persisted message records of the room are at
\* most 100 and one more for each append to the room that is in flight: the
\* record of a message the trim took out of the index is gone from the store.
C30_RecordsWithinCap ==
    \A r \in Rooms :
        Cardinality(RecordsOf(r)) <= HistoryCap + Cardinality(SavesInFlight(r))

\* The ranks at which the index of `room` holds message id `id`
RanksOf(room, id) == {i \in 1..Len(roomMsgs[room]) : roomMsgs[room][i].value = id}

\* The messages sent have ids of their own (no two were made in the same ms)
DistinctIds == \A a, b \in 1..Len(sent) : a # b => sent[a].id # sent[b].id

\* C28: with the second save of send-message, every message that has been
\* broadcast is in the index of its room exactly once, and the messages of a
\* room stand in the index in the order in which they were broadcast (which
\* is the order in which they were sent: every awaited save takes the same
\* three commands of the one pipeline); this in every state, those between
\* the commands of the saves among them.  Stated for messages whose ids
\* differ.
C28_SecondSaveIdempotent ==
    DistinctIds
    => /\ \A a \in 1..broadcasts :
             Cardinality(RanksOf(sent[a].room, sent[a].id)) = 1
       /\ \A a, b \in 1..broadcasts :
             (a < b /\ sent[a].room = sent[b].room)
             => \A i \in RanksOf(sent[a].room, sent[a].id),
                   k \in RanksOf(sent[b].room, sent[b].id) : i < k

\* The last typing event among `emits` is a typing-start
Started(emits) ==
    \E i \in 1..Len(emits) :
        /\ emits[i] = "typing-start"
        /\ \A k \in (i + 1)..Len(emits) : emits[k] # "typing-stop"

\* C21: when the input has emitted typing-start, and no typing-stop since,
\* and nothing changes the input for 2 seconds, the timeout emits typing-stop.
C21_TimeoutStopsTyping ==
    [][(last'.op = "timeout" /\ Started(client.emits))
       => client'.emits = Append(client.emits, "typing-stop")]_vars

\* The step is a join-room of a participant of another room in which
\* others remain
IsSwitch ==
    /\ last'.op = "join-room"
    /\ activeUsers[last'.socket] # NoUser
    /\ activeUsers[last'.socket].room # activeUsers'[last'.socket].room
    /\ Members(activeUsers', activeUsers[last'.socket].room) # {}

\* C24: when a participant of r1 joins r2, the step sends the participants
\* that remain in r1 a room-users list, which is the membership of r1
\* without the one that left.
C24_SwitchUpdatesLeftRoom ==
    [][IsSwitch
       => LET left == activeUsers[last'.socket].room
          IN  \E i \in 1..Len(emitted') :
                 /\ emitted'[i].ev = "room-users"
                 /\ Members(activeUsers', left) \subseteq emitted'[i].to
                 /\ emitted'[i].data = Entries(activeUsers', left)]_vars

\* The messages of the list that send-message made during the run: the
\* client of a socket that joined during the run got them as new-message, or
\* in a chat-history
LiveIn(messages) ==
    {m \in {messages[k] : k \in 1..Len(messages)} : \E a \in 1..Len(sent) : sent[a] = m}

\* The step hands the client of socket c a chat-history
GetsHistory(c) ==
    /\ last'.op = "deliver"
    /\ \E i \in 1..Len(emitted) : emitted[i].ev = "chat-history" /\ c \in emitted[i].to

\* C25: when its chat-history arrives, the client still holds every message
\* it has received since its join-room: the list the history replaces holds
\* no message that the new list lacks.
C25_HistoryKeepsLive ==
    [][\A c \in Conns :
          GetsHistory(c) => LiveIn(client[c].messages) \subseteq LiveIn(client'[c].messages)]_vars

\* The reads of the log of `room` that are in flight for socket c
ReadsIn(queue, c, room) ==
    {i \in 1..Len(queue) :
        /\ queue[i].fn = "getRoomMessages"
        /\ queue[i].socket = c
        /\ queue[i].room = room}

\* C26: a chat-history of a room that its socket, still connected and a
\* participant, is no longer in is emitted only while the read of the log
\* of the room the socket is in is still under way: the history of the room
\* the socket is in is the last one it gets.
C26_LastHistoryIsOfCurrentRoom ==
    [][IsHistory
       => LET cmd == Head(redisQueue)
              user == activeUsers[cmd.socket]
          IN  (sockets[cmd.socket] = "open" /\ user # NoUser /\ user.room # cmd.room)
              => ReadsIn(redisQueue', cmd.socket, user.room) # {}]_vars

\* Nothing is in flight and the clients have handled what they were sent:
\* nothing more reaches a client unless a client emits again
Settled == redisQueue = <<>> /\ ~Pending

\* Another participant of the room of socket d has username `username`
TypingAuthor(d, username) ==
    \E c \in Conns \ {d} :
        /\ activeUsers[c] # NoUser
        /\ activeUsers[c].room = activeUsers[d].room
        /\ activeUsers[c].username = username

\* C27: when all that was under way has reached the clients, the typing
\* users a participant's client shows are participants of its room: the
\* name of one that has disconnected, or gone to another room, while shown
\* as typing has been removed.
C27_TypingEndsWithMembership ==
    Settled
    => \A d \in Conns :
          (sockets[d] = "open" /\ activeUsers[d] # NoUser /\ client[d].isInRoom)
          => \A username \in client[d].typingUsers : TypingAuthor(d, username)

\* C29: a client that shows the chat room and is connected has a socket for
\* which the server holds a participant, so that send-message from the chat
\* room finds its `user`.
C29_ShownRoomIsJoined ==
    ~Pending
    => \A c \in Conns :
          (client[c].isConnected /\ client[c].isInRoom) => HasUser(activeUsers[c])

\* The sockets of the process of socket c that are participants of `room`
LocalMembers(au, c, room) ==
    {x \in Conns : ProcessOf(x) = ProcessOf(c) /\ au[x] # NoUser /\ au[x].room = room}

\* The step is a join-room, or the disconnect of a participant, and `room`
\* is the room joined, or the room of the participant
SendsRoomUsers(room) ==
    \/ last'.op = "join-room" /\ room = activeUsers'[last'.socket].room
    \/ /\ last'.op = "disconnect"
       /\ activeUsers[last'.socket] # NoUser
       /\ room = activeUsers[last'.socket].room

\* C22: with two processes, the one room-users list of a join-room or of a
\* disconnect holds the participants of the room that are sockets of the
\* process that handles the event, and no other; it goes to every socket of
\* the room, those of the other process among them, which are not in it.
C22_RoomUsersIsLocal ==
    [][\A room \in Rooms :
          SendsRoomUsers(room)
          => LET e == emitted'[Len(emitted')]
                 local == LocalMembers(activeUsers', last'.socket, room)
             IN  /\ e.ev = "room-users"
                 /\ \A i \in 1..(Len(emitted') - 1) : emitted'[i].ev # "room-users"
                 /\ e.data = {[id |-> x, username |-> activeUsers'[x].username] : x \in local}
                 /\ e.to = InRoom(socketRooms', room)
                 /\ \A x \in Members(activeUsers', room) \ local :
                        /\ x \in e.to
                        /\ \A u \in e.data : u.id # x]_vars

\* s1 has joined a room in which s2, a socket of the other process, is a
\* participant: the list went to both and holds s1 alone
C22_ListWithoutTheOther ==
    /\ last = Handled("join-room", "s1")
    /\ activeUsers["s2"] # NoUser
    /\ activeUsers["s2"].room = activeUsers["s1"].room
    /\ emitted[Len(emitted)].ev = "room-users"
    /\ emitted[Len(emitted)].to = {"s1", "s2"}
    /\ emitted[Len(emitted)].data = {[id |-> "s1", username |-> activeUsers["s1"].username]}

====
